---- MODULE Spec2Model ----
(***************************************************************************)
(* Download job orchestration of PlaylistsRemix: the Bull download queue   *)
(* (queue.server.ts), the routes that submit jobs (api.download.ts,         *)
(* api.bulk-download.ts, custom-url.tsx), the worker and the progress       *)
(* broadcaster (downloadWorker.server.ts), the completed-job listener       *)
(* (customUrlDownloadWorker.server.ts), the cancel route, the live-stream   *)
(* route (api.download-progress.ts) and the archive retrieval route         *)
(* (api.bulk-download.$jobId.ts).                                           *)
(***************************************************************************)
EXTENDS Integers, Sequences, FiniteSets, TLC

\* ---------------------------------------------------------------- bounds
NumSongs == 2       \* songs in the catalog
MaxJobs == 2        \* job records ever created, all kinds of job together
MaxSingle == 1      \* job records ever created, single and custom-url jobs only
MaxBulk == 2        \* job records ever created, bulk jobs only
MaxTime == 1        \* last value of the millisecond clock (Date.now())
MaxSubmits == 2     \* queue.add calls counted per job id
MaxRequests == 1    \* cancel and retrieval requests answered
MaxConns == 2       \* live-stream connections ever opened
MaxWatched == 1     \* job records ever created while a live stream is connected
MaxCalls == 7       \* storage operations a schedule answers
MaxPaths == 3       \* paths handed to one archive build
MaxTitle == 2       \* characters of a song title and of a file name
MaxExtra == 1       \* completion markers printed beyond one per extracted file

\* ------------------------------------------------------------- constants
DefaultAttempts == 3    \* defaultJobOptions.attempts
SingleAttempts == 3     \* attempts passed by api.download.ts
ConcurrencyTwo == 1 + 1
Concurrency == 1        \* downloadQueue.process(handler): Bull's default

Users == {"u1", "u2"}
Songs == 1..NumSongs

\* platform column of a song: song 1 comes from Spotify, song 2 was saved by
\* the custom-url route, the others from Youtube
Platform(s) == IF s = 1 THEN "Spotify" ELSE IF s = 2 THEN "CustomURL" ELSE "Youtube"

\* job ids: Bull's counter for jobs added without jobId, `bulk-${Date.now()}`
\* for bulk jobs
NumId(k) == <<"n", k>>
BulkId(t) == <<"bulk", t>>
MaxNumId ==
    LET m == IF MaxJobs > MaxSingle THEN MaxJobs ELSE MaxSingle
    IN IF m > MaxWatched THEN m ELSE MaxWatched
JobIds == {NumId(k) : k \in 1..MaxNumId} \cup {BulkId(t) : t \in 0..MaxTime}

NoData == [kind |-> "none", route |-> "none", userId |-> "none", songId |-> 0,
           bulkSongIds |-> {}, attempts |-> 0]
NoResult == [zipPath |-> <<>>, successCount |-> 0, failCount |-> 0]

\* the progress broadcaster's subscribers: callbacks given to addEventSource
\* and the controllers of the live-stream connections
Callbacks == {"cb1", "cb2"}
Conns == 1..MaxConns
NoStream == 0
MaxRetries == 5
Outcomes == {"ok", "busy", "error"}
Schedules == [1..MaxCalls -> Outcomes]
PathKinds == {"file", "missing", "dir"}
PathLists == UNION {[1..n -> PathKinds] : n \in 0..MaxPaths}
NoBuild == [state |-> "none", paths |-> <<>>, i |-> 0, added |-> 0, failed |-> 0,
            fault |-> "none"]
Chars == {"a", "B", "!", " "}
Strings == UNION {[1..n -> Chars] : n \in 0..MaxTitle}
Artists == {<<>>, <<"a">>}
Listings == {<<>>} \cup {<<f>> : f \in Strings \ {<<>>}}
            \cup {fg \in (Strings \ {<<>>}) \X (Strings \ {<<>>}) : fg[1] # fg[2]}
NoMatch == [state |-> "none", files |-> <<>>, songTitle |-> <<>>,
            artistName |-> <<>>, readdirOk |-> TRUE, found |-> 0]
NoCall == [op |-> "none", schedule |-> <<>>, attempt |-> 0, calls |-> 0,
           result |-> "none"]
CallbackSub(u, c) == <<"callback", u, c>>
StreamSub(k) == <<"stream", k>>
Subscribers == {CallbackSub(u, c) : u \in Users, c \in Callbacks} \cup {StreamSub(k) : k \in Conns}

VARIABLES
    status,       \* id -> none | waiting | active | delayed | completed | failed
    data,         \* id -> job.data and job.opts
    attemptsMade, \* id -> Bull's attemptsMade
    result,       \* id -> what job.update persisted (zipPath, counts)
    wait,         \* Bull's wait list, head is taken next
    pc,           \* id -> position of the handler: idle | run | tool
    urls,         \* id -> processedUrls of the running bulk attempt
    downloaded,   \* song -> catalog flag downloaded
    local,        \* song -> catalog flag local
    folder,       \* user -> audio files in tmp/<user>/bulk (by song)
    archive,      \* id -> files in the zip the job wrote
    zips,         \* paths of the zip files on disk
    tools,        \* running external tool invocations
    listeners,    \* completed events not yet handled by the listener
    errEvents,    \* id -> number of error-typed events emitted for the job
    now,          \* Date.now()
    nextId,       \* Bull's id counter
    \* history
    started,      \* id -> number of times the handler was started
    submits,      \* id -> number of queue.add calls made with this id
    onlyToolFail, \* id -> every attempt so far ended because the tool failed
    produced,     \* id -> files the batches of the job have produced
    \* progress broadcaster
    eventSources,    \* user -> callbacks registered with addEventSource
    downloadStreams, \* user -> controller registered by the live-stream route
    open,            \* controller -> user of the connection, while it is open
    delivered,       \* subscriber -> the events it was handed, in order
    \* request handlers
    cancelling,      \* cancel requests that await job.remove()
    responses,       \* answers given to cancel and retrieval requests, in order
    \* history
    removedWaiting,  \* id -> a cancel request removed the job while it waited
    \* calls of the storage layer
    retry,           \* the storage call in progress: schedule, attempts, outcome
    \* archive builder
    build,           \* the archive build in progress: paths, position, counts
    \* file matcher
    match,           \* the call of findMatchingFile: its inputs and what it found
    \* history
    acks             \* the answers of the bulk submission route, in order

vars == <<status, data, attemptsMade, result, wait, pc, urls, downloaded, local,
          folder, archive, zips, tools, listeners, errEvents, now, nextId, started,
          submits, onlyToolFail, produced, eventSources, downloadStreams, open,
          delivered, cancelling, responses, removedWaiting, retry, build,
          match, acks>>

\* the variables of the broadcaster's registry, and those only the cancel
\* route, the retrieval route and the archive step of the worker change
registry == <<eventSources, downloadStreams, open>>
requests == <<cancelling, responses, removedWaiting, zips>>
\* the variables of calls that run outside the job handlers
calls == <<retry, build, match, acks>>

Init ==
    /\ status = [id \in JobIds |-> "none"]
    /\ data = [id \in JobIds |-> NoData]
    /\ attemptsMade = [id \in JobIds |-> 0]
    /\ result = [id \in JobIds |-> NoResult]
    /\ wait = <<>>
    /\ pc = [id \in JobIds |-> "idle"]
    /\ urls = [id \in JobIds |-> {}]
    /\ downloaded = [s \in Songs |-> FALSE]
    /\ local = [s \in Songs |-> FALSE]
    /\ folder = [u \in Users |-> {}]
    /\ archive = [id \in JobIds |-> {}]
    /\ zips = {}
    /\ tools = {}
    /\ listeners = {}
    /\ errEvents = [id \in JobIds |-> 0]
    /\ now = 0
    /\ nextId = 1
    /\ started = [id \in JobIds |-> 0]
    /\ submits = [id \in JobIds |-> 0]
    /\ onlyToolFail = [id \in JobIds |-> TRUE]
    /\ produced = [id \in JobIds |-> {}]
    /\ eventSources = [u \in Users |-> {}]
    /\ downloadStreams = [u \in Users |-> NoStream]
    /\ open = [k \in Conns |-> "none"]
    /\ delivered = [c \in Subscribers |-> <<>>]
    /\ cancelling = {}
    /\ responses = <<>>
    /\ removedWaiting = [id \in JobIds |-> FALSE]
    /\ retry = NoCall
    /\ build = NoBuild
    /\ match = NoMatch
    /\ acks = <<>>

NumJobs == Cardinality({id \in JobIds : status[id] # "none"})
Active == {id \in JobIds : status[id] = "active"}

\* --------------------------------------------------- progress broadcaster
\* the subscribers emitProgress(u, e) hands e to: the callbacks in the user's
\* set, then the controller registered for the user
ReceiversAnyUser(u) ==
    UNION {{CallbackSub(v, c) : c \in eventSources[v]} : v \in Users} \cup
    {StreamSub(downloadStreams[v]) : v \in {w \in Users : downloadStreams[w] # NoStream}}
Receivers(u) ==
    {CallbackSub(u, c) : c \in eventSources[u]} \cup
    (IF downloadStreams[u] # NoStream THEN {StreamSub(downloadStreams[u])} ELSE {})

\* a ProgressData payload; progress is NoProgress when the field is absent,
\* song is the song the label names (0: none)
NoProgress == 0 - 1
Event(type, progress, id, song) ==
    [type |-> type, progress |-> progress, jobId |-> id, song |-> song]

\* the calls emitProgress(u, e) for the events e of evs in turn
EmitProgress(u, evs) ==
    delivered' = [c \in Subscribers |->
                    IF c \in Receivers(u) THEN delivered[c] \o evs ELSE delivered[c]]

\* addEventSource(u, c): the callbacks of a user are a Set
AddEventSource(u, c) ==
    /\ eventSources' = [eventSources EXCEPT ![u] = @ \cup {c}]
    /\ UNCHANGED <<calls, status, data, attemptsMade, result, wait, pc, urls, downloaded,
                   local, folder, archive, tools, listeners, errEvents, now, nextId,
                   started, submits, onlyToolFail, produced, downloadStreams, open,
                   delivered, requests>>

\* removeEventSource(u, c); a user whose set became empty has no entry left
RemoveEventSource(u, c) ==
    /\ eventSources' = [eventSources EXCEPT ![u] = @ \ {c}]
    /\ UNCHANGED <<calls, status, data, attemptsMade, result, wait, pc, urls, downloaded,
                   local, folder, archive, tools, listeners, errEvents, now, nextId,
                   started, submits, onlyToolFail, produced, downloadStreams, open,
                   delivered, requests>>

\* registerDownloadStream(u, controller): one entry per user
RegisterDownloadStream(streams, u, k) == [streams EXCEPT ![u] = k]
\* removeDownloadStream(u): the entry of the user is deleted
RemoveDownloadStream(streams, u) == [streams EXCEPT ![u] = NoStream]

\* GET /api/download-progress?userId=u: connection k opens and registers
DownloadProgressOpen(k, u) ==
    /\ open[k] = "none"
    /\ \A j \in Conns : j < k => open[j] # "none"
    /\ open' = [open EXCEPT ![k] = u]
    /\ downloadStreams' = RegisterDownloadStream(downloadStreams, u, k)
    /\ UNCHANGED <<calls, status, data, attemptsMade, result, wait, pc, urls, downloaded,
                   local, folder, archive, tools, listeners, errEvents, now, nextId,
                   started, submits, onlyToolFail, produced, eventSources,
                   delivered, requests>>

\* the abort listener of connection k: deregisters and closes the controller
DownloadProgressAbort(k) ==
    /\ open[k] \in Users
    /\ downloadStreams' = RemoveDownloadStream(downloadStreams, open[k])
    /\ open' = [open EXCEPT ![k] = "closed"]
    /\ UNCHANGED <<calls, status, data, attemptsMade, result, wait, pc, urls, downloaded,
                   local, folder, archive, tools, listeners, errEvents, now, nextId,
                   started, submits, onlyToolFail, produced, eventSources,
                   delivered, requests>>

\* ------------------------------------------------------------ Bull queue
\* addJob: a job whose key already exists is not added again
AddIsNewAlways(st) == TRUE
AddIsNew(st) == st = "none"

\* downloadQueue.add(data, opts) with the resulting job id
QueueAdd(id, d) ==
    /\ submits[id] < MaxSubmits
    /\ submits' = [submits EXCEPT ![id] = @ + 1]
    /\ IF AddIsNew(status[id])
       THEN /\ status' = [status EXCEPT ![id] = "waiting"]
            /\ data' = [data EXCEPT ![id] = d]
            /\ attemptsMade' = [attemptsMade EXCEPT ![id] = 0]
            /\ wait' = Append(wait, id)
       ELSE UNCHANGED <<status, data, attemptsMade, wait>>

\* POST /api/download: one song, attempts given explicitly
ApiDownloadAction(u, s) ==
    /\ QueueAdd(NumId(nextId), [kind |-> "single", route |-> "download", userId |-> u,
                                songId |-> s, bulkSongIds |-> {},
                                attempts |-> SingleAttempts])
    /\ nextId' = nextId + 1
    /\ EmitProgress(u, <<Event("queued", 0, NumId(nextId), s)>>)
    /\ UNCHANGED <<calls, result, pc, urls, downloaded, local, folder, archive, tools,
                   listeners, errEvents, now, started, onlyToolFail, produced,
                   registry, requests>>

\* custom-url action: the song was just saved with the platform yt-dlp detected
CustomUrlAction(u, s) ==
    /\ Platform(s) # "Spotify"
    /\ QueueAdd(NumId(nextId), [kind |-> "single", route |-> "custom", userId |-> u,
                                songId |-> s, bulkSongIds |-> {},
                                attempts |-> DefaultAttempts])
    /\ nextId' = nextId + 1
    /\ EmitProgress(u, <<Event("queued", 0, NumId(nextId), s)>>)
    /\ UNCHANGED <<calls, result, pc, urls, downloaded, local, folder, archive, tools,
                   listeners, errEvents, now, started, onlyToolFail, produced,
                   registry, requests>>

\* POST /api/bulk-download: jobId = `bulk-${Date.now()}`, the job is added and
\* the queued event published
ApiBulkDownloadQueue(u, ids) ==
    /\ ids # {}
    /\ QueueAdd(BulkId(now), [kind |-> "bulk", route |-> "bulk", userId |-> u,
                              songId |-> 0, bulkSongIds |-> ids,
                              attempts |-> DefaultAttempts])
    /\ EmitProgress(u, <<Event("queued", 0, BulkId(now), 0)>>)
    /\ UNCHANGED <<result, pc, urls, downloaded, local, folder, archive, tools,
                   listeners, errEvents, now, nextId, started, onlyToolFail, produced,
                   registry, requests>>

\* what the route answers: success, the job id and the number of songs
Acknowledged(u, ids, id) == [userId |-> u, bulkSongIds |-> ids, jobId |-> id]

ApiBulkDownloadAction(u, ids) ==
    /\ ApiBulkDownloadQueue(u, ids)
    /\ UNCHANGED calls

\* the same route, with its answer kept
ApiBulkDownloadAnswered(u, ids) ==
    /\ ApiBulkDownloadQueue(u, ids)
    /\ acks' = Append(acks, Acknowledged(u, ids, BulkId(now)))
    /\ UNCHANGED <<retry, build, match>>

\* the millisecond clock advances
Tick ==
    /\ now < MaxTime
    /\ now' = now + 1
    /\ UNCHANGED <<calls, status, data, attemptsMade, result, wait, pc, urls, downloaded,
                   local, folder, archive, tools, listeners, errEvents, nextId,
                   started, submits, onlyToolFail, produced, delivered,
                   registry, requests>>

\* the worker takes the next waiting job when it has a free slot
Dequeue ==
    /\ wait # <<>>
    /\ Cardinality(Active) < Concurrency
    /\ LET id == Head(wait) IN
       /\ status' = [status EXCEPT ![id] = "active"]
       /\ pc' = [pc EXCEPT ![id] = "run"]
       /\ started' = [started EXCEPT ![id] = @ + 1]
    /\ wait' = Tail(wait)
    /\ UNCHANGED <<calls, data, attemptsMade, result, urls, downloaded, local, folder,
                   archive, tools, listeners, errEvents, now, nextId, submits,
                   onlyToolFail, produced, delivered, registry, requests>>

\* a job whose attempt raised: retried after the backoff while attempts remain
RetryStatusDirect(made, attempts) == IF made < attempts THEN "waiting" ELSE "failed"
RetryStatusExtra(made, attempts) == IF made <= attempts THEN "delayed" ELSE "failed"
RetryStatus(made, attempts) == IF made < attempts THEN "delayed" ELSE "failed"

\* status and attemptsMade after the handler of job id has raised
AttemptFailed(id) ==
    /\ attemptsMade' = [attemptsMade EXCEPT ![id] = @ + 1]
    /\ status' = [status EXCEPT
                    ![id] = RetryStatus(attemptsMade[id] + 1, data[id].attempts)]
    /\ pc' = [pc EXCEPT ![id] = "idle"]

\* the backoff delay of a delayed job has elapsed
PromoteDelayed(id) ==
    /\ status[id] = "delayed"
    /\ status' = [status EXCEPT ![id] = "waiting"]
    /\ wait' = Append(wait, id)
    /\ UNCHANGED <<calls, data, attemptsMade, result, pc, urls, downloaded, local, folder,
                   archive, tools, listeners, errEvents, now, nextId, started,
                   submits, onlyToolFail, produced, delivered, registry,
                   requests>>

\* --------------------------------------------------------- cancel route
Response(route, u, id, code) == [route |-> route, user |-> u, job |-> id, code |-> code]
CancelRequest(u, id) == [user |-> u, job |-> id]

\* removeJob: a job that is locked, as it is while a worker processes it, is
\* not removed
Removable(st) == st # "active"

\* removeJob: the wait list without the job
WaitKept(q, id) == q
WaitWithout(q, id) == SelectSeq(q, LAMBDA x : x # id)

\* the owner check of the cancel route
OwnerAny(u, d) == TRUE
Owner(u, d) == d.userId = u

\* POST cancel of job id by user u, up to the call of job.remove(): getJob, the
\* owner check and the usercancelled event
CancelStart(u, id) ==
    /\ Len(responses) + Cardinality(cancelling) < MaxRequests
    /\ CancelRequest(u, id) \notin cancelling
    /\ IF status[id] = "none"
       THEN /\ responses' = Append(responses, Response("cancel", u, id, 404))
            /\ UNCHANGED <<cancelling, delivered>>
       ELSE IF ~Owner(u, data[id])
       THEN /\ responses' = Append(responses, Response("cancel", u, id, 403))
            /\ UNCHANGED <<cancelling, delivered>>
       ELSE /\ EmitProgress(u, <<Event("usercancelled", NoProgress, id, data[id].songId)>>)
            /\ cancelling' = cancelling \cup {CancelRequest(u, id)}
            /\ UNCHANGED responses
    /\ UNCHANGED <<calls, status, data, attemptsMade, result, wait, pc, urls, downloaded,
                   local, folder, archive, zips, tools, listeners, errEvents, now,
                   nextId, started, submits, onlyToolFail, produced, registry,
                   removedWaiting>>

\* job.remove() and the answer of the route: 200, or 500 when remove raised.
\* A handler or listener that holds the job keeps its copy of job.data:
\* data[id] stays until the id is added again
CancelRemove(u, id) ==
    /\ CancelRequest(u, id) \in cancelling
    /\ cancelling' = cancelling \ {CancelRequest(u, id)}
    /\ IF Removable(status[id])
       THEN /\ status' = [status EXCEPT ![id] = "none"]
            /\ wait' = WaitWithout(wait, id)
            /\ attemptsMade' = [attemptsMade EXCEPT ![id] = 0]
            /\ result' = [result EXCEPT ![id] = NoResult]
            /\ removedWaiting' = [removedWaiting EXCEPT
                                    ![id] = @ \/ status[id] = "waiting"]
            /\ responses' = Append(responses, Response("cancel", u, id, 200))
       ELSE /\ responses' = Append(responses, Response("cancel", u, id, 500))
            /\ UNCHANGED <<status, wait, attemptsMade, result, removedWaiting>>
    /\ UNCHANGED <<calls, data, pc, urls, downloaded, local, folder, archive, zips, tools,
                   listeners, errEvents, now, nextId, started, submits, onlyToolFail,
                   produced, registry, delivered>>

\* ------------------------------------------------------ retrieval route
\* `bulk-download-${timestamp}.zip`, written by the worker at time t
ZipFilename(t) == <<"bulk-download", t, ".zip">>
\* path.join(outputDir, zipFilename) with outputDir = tmp/<user>/bulk
WorkerZipPath(u, t) == <<"tmp", u, "bulk", ZipFilename(t)>>
\* path.join(cwd, "tmp", userId, `${jobId}.zip`)
RetrievalZipPath(u, id) == <<"tmp", u, <<id, ".zip">>>>

\* GET /api/bulk-download/<id>: 404 without the job or without the file, else
\* the file is streamed and two progress events tell the start and the end
ApiBulkDownloadJobLoader(id) ==
    /\ Len(responses) + Cardinality(cancelling) < MaxRequests
    /\ LET u == data[id].userId
           found == status[id] # "none" /\ RetrievalZipPath(u, id) \in zips
       IN /\ responses' = Append(responses,
                  Response("retrieve", u, id, IF found THEN 200 ELSE 404))
          /\ IF found
             THEN EmitProgress(u, <<Event("progress", 100, id, 0),
                                    Event("progress", 100, id, 0)>>)
             ELSE UNCHANGED delivered
    /\ UNCHANGED <<calls, status, data, attemptsMade, result, wait, pc, urls, downloaded,
                   local, folder, archive, zips, tools, listeners, errEvents, now,
                   nextId, started, submits, onlyToolFail, produced, registry,
                   cancelling, removedWaiting>>

\* ------------------------------------------------------------- catalog
\* UPDATE song SET downloaded = ? WHERE id = ?  (ok = the statement did not raise)
UpdateSongDownloadStatus(flags, s, v, ok) == IF ok THEN [flags EXCEPT ![s] = v] ELSE flags
\* UPDATE song SET local = ? WHERE id = ?
UpdateSongLocalStatus(flags, s, v, ok) == IF ok THEN [flags EXCEPT ![s] = v] ELSE flags

\* the completed listener returns at once when the job has no song (bulk) or
\* the song comes from Spotify or Youtube
ListenerRuns(d) ==
    d.kind = "single" /\ Platform(d.songId) \notin {"Spotify", "Youtube"}

\* the completed events the listener still has to act on
Emitted(id) == IF ListenerRuns(data[id]) THEN listeners \cup {id} ELSE listeners

WorkerTool(id) == [ctx |-> "worker", job |-> id]
ListenerTool(id) == [ctx |-> "listener", job |-> id]

\* --------------------------------------------------- processSingleDownload
\* up to the start of the external download; lookupOk: getSongById returned
ProcessSingleDownloadStart(id, lookupOk) ==
    /\ status[id] = "active" /\ pc[id] = "run" /\ data[id].kind = "single"
    /\ IF lookupOk
       THEN /\ pc' = [pc EXCEPT ![id] = "tool"]
            /\ tools' = tools \cup {WorkerTool(id)}
            /\ EmitProgress(data[id].userId,
                            <<Event("progress", 0, id, data[id].songId)>>)
            /\ UNCHANGED <<status, attemptsMade, onlyToolFail>>
       ELSE /\ AttemptFailed(id)
            /\ onlyToolFail' = [onlyToolFail EXCEPT ![id] = FALSE]
            /\ UNCHANGED <<tools, delivered>>
    /\ UNCHANGED <<calls, data, result, wait, urls, downloaded, local, folder, archive,
                   listeners, errEvents, now, nextId, started, submits, produced,
                   registry, requests>>

\* the events at the end of the try block
SingleSuccessEventsSwapped(id, s) ==
    <<Event("complete", NoProgress, id, s), Event("progress", 100, id, s)>>
SingleSuccessEvents(id, s) ==
    <<Event("progress", 100, id, s), Event("complete", NoProgress, id, s)>>

\* the try block returns: the download matched a file and both writes went through
SingleSucceedsFirstWrite(outcome, w1, w2) == outcome = "ok" /\ w1
SingleSucceeds(outcome, w1, w2) == outcome = "ok" /\ w1 /\ w2

\* from the end of downloadSpotifySong to the return or throw of the handler;
\* outcome: fail (the tool raised), nomatch (no output file matched), ok;
\* w1, w2: the writes of the try block succeed; c1, c2: those of the catch block
ProcessSingleDownloadFinish(id, outcome, w1, w2, c1, c2) ==
    /\ status[id] = "active" /\ pc[id] = "tool" /\ data[id].kind = "single"
    /\ tools' = tools \ {WorkerTool(id)}
    /\ LET s == data[id].songId
           d1 == UpdateSongDownloadStatus(downloaded, s, TRUE, outcome = "ok" /\ w1)
           l1 == UpdateSongLocalStatus(local, s, TRUE, outcome = "ok" /\ w1 /\ w2)
       IN IF SingleSucceeds(outcome, w1, w2)
          THEN /\ downloaded' = d1
               /\ local' = l1
               /\ status' = [status EXCEPT ![id] = "completed"]
               /\ pc' = [pc EXCEPT ![id] = "idle"]
               /\ listeners' = Emitted(id)
               /\ EmitProgress(data[id].userId, SingleSuccessEvents(id, s))
               /\ UNCHANGED <<attemptsMade, errEvents, onlyToolFail>>
          ELSE /\ downloaded' = UpdateSongDownloadStatus(d1, s, FALSE, c1)
               /\ local' = UpdateSongLocalStatus(l1, s, FALSE, c1 /\ c2)
               /\ errEvents' = [errEvents EXCEPT ![id] = @ + 1]
               /\ EmitProgress(data[id].userId,
                               <<Event("error", NoProgress, id, s)>>)
               /\ AttemptFailed(id)
               /\ onlyToolFail' = [onlyToolFail EXCEPT ![id] = @ /\ outcome = "fail"]
               /\ UNCHANGED listeners
    /\ UNCHANGED <<calls, data, result, wait, urls, folder, archive, now, nextId, started,
                   submits, produced, registry, requests>>

\* ----------------------------------------------------- processBulkDownload
SpotifyTracks(ids) == {s \in ids : Platform(s) = "Spotify"}

\* Math.round((a / b) * 100)
Round100(a, b) == (200 * a + b) \div (2 * b)

\* the events of the conversion loop over the Spotify tracks todo, taken in the
\* order of the song list (by id); n: spotifyTracks.length, converted:
\* convertedCount, convFail: the tracks whose conversion raises
RECURSIVE ConversionEvents(_, _, _, _, _)
ConversionEvents(id, todo, n, converted, convFail) ==
    IF todo = {} THEN <<>>
    ELSE LET s == CHOOSE x \in todo : \A y \in todo : x <= y
             before == <<Event("progress", Round100(converted, n), id, 0),
                         Event("info", NoProgress, id, s)>>
         IN IF s \in convFail
            THEN before \o <<Event("error", NoProgress, id, s)>>
                 \o ConversionEvents(id, todo \ {s}, n, converted, convFail)
            ELSE before \o <<Event("progress", Round100(converted + 1, n), id, 0),
                             Event("info", NoProgress, id, s)>>
                 \o ConversionEvents(id, todo \ {s}, n, converted + 1, convFail)

\* the events emitted from the start of the try block to the start of the batch
BulkStartEvents(id, convFail) ==
    LET tracks == SpotifyTracks(data[id].bulkSongIds)
    IN <<Event("progress", 0, id, 0)>>
       \o (IF tracks # {}
           THEN <<Event("progress", 0, id, 0), Event("info", NoProgress, id, 0)>>
           ELSE <<>>)
       \o ConversionEvents(id, tracks, Cardinality(tracks), 0, convFail)
       \o (IF tracks # {} /\ tracks \ convFail # {}
           THEN <<Event("progress", 0, id, 0)>> ELSE <<>>)

\* the songs of a set in the order of their ids
RECURSIVE InOrder(_)
InOrder(S) ==
    IF S = {} THEN <<>>
    ELSE LET s == CHOOSE x \in S : \A y \in S : x <= y IN <<s>> \o InOrder(S \ {s})

\* the events of the batch download: the stdout handler counts every chunk of
\* output that holds a completion marker, the stderr handler names each url
\* that failed, the close handler reports when the folder lists a file
BatchEvents(id, markers, extractFail, listed) ==
    [i \in 1..markers |->
        Event("progress", Round100(i, Cardinality(data[id].bulkSongIds)), id, 0)]
    \o [i \in 1..Cardinality(extractFail) |->
          Event("info", NoProgress, id, InOrder(extractFail)[i])]
    \o (IF listed # {} THEN <<Event("info", NoProgress, id, 0)>> ELSE <<>>)

\* mkdir, getSongsByIds, the conversion loop and the start of the batch download;
\* convFail: the Spotify tracks whose conversion raised
ProcessBulkDownloadStart(id, mkdirOk, convFail) ==
    /\ status[id] = "active" /\ pc[id] = "run" /\ data[id].kind = "bulk"
    /\ convFail \subseteq SpotifyTracks(data[id].bulkSongIds)
    /\ IF mkdirOk
       THEN /\ errEvents' = [errEvents EXCEPT ![id] = @ + Cardinality(convFail)]
            /\ urls' = [urls EXCEPT ![id] = data[id].bulkSongIds \ convFail]
            /\ pc' = [pc EXCEPT ![id] = "tool"]
            /\ tools' = tools \cup {WorkerTool(id)}
            /\ EmitProgress(data[id].userId, BulkStartEvents(id, convFail))
            /\ UNCHANGED <<status, attemptsMade>>
       ELSE /\ convFail = {}
            /\ AttemptFailed(id)
            /\ UNCHANGED <<errEvents, urls, tools, delivered>>
    /\ UNCHANGED <<calls, data, result, wait, downloaded, local, folder, archive,
                   listeners, now, nextId, started, submits, onlyToolFail, produced,
                   registry, requests>>

\* the files the job puts in the archive: what readdir of the bulk folder lists
\* (urls.txt, .zip, .part and dot files are not tracked in folder)
SongFiles(files) == files

\* the handler returns: some file is listed, the archive was written and the
\* result was persisted on the job
BulkSucceeds(songFiles, archiveOk, persist) ==
    songFiles # {} /\ archiveOk /\ persist = "ok"

\* the catalog after the loop over all songs of the job; dbw[s] tells which of
\* the two writes for s succeed: both, first (the second raises), none
FlagsAfterBulk(flags, ids, dbw, which) ==
    [s \in Songs |->
        IF s \in ids /\ (dbw[s] = "both" \/ (which = "downloaded" /\ dbw[s] = "first"))
        THEN TRUE ELSE flags[s]]

\* from the close of the batch download to the return or throw of the handler;
\* extractFail: urls that produced no file; persist: ok, or which of
\* job.progress(100) / job.update raised; extra: the chunks of output with a
\* completion marker that the tool printed beyond one for each extracted file
ProcessBulkDownloadFinish(id, extractFail, extra, archiveOk, dbw, persist) ==
    /\ status[id] = "active" /\ pc[id] = "tool" /\ data[id].kind = "bulk"
    /\ extractFail \subseteq urls[id]
    /\ tools' = tools \ {WorkerTool(id)}
    /\ LET u == data[id].userId
           ids == data[id].bulkSongIds
           totalSongs == Cardinality(ids)
           newFiles == urls[id] \ extractFail
           files == folder[u] \cup newFiles
           songFiles == SongFiles(files)
           zipped == songFiles # {} /\ archiveOk
       IN /\ folder' = [folder EXCEPT ![u] = files]
          /\ produced' = [produced EXCEPT ![id] = @ \cup newFiles]
          /\ archive' = IF zipped THEN [archive EXCEPT ![id] = songFiles] ELSE archive
          /\ zips' = IF zipped THEN zips \cup {WorkerZipPath(u, now)} ELSE zips
          /\ downloaded' = IF zipped THEN FlagsAfterBulk(downloaded, ids, dbw, "downloaded")
                           ELSE downloaded
          /\ local' = IF zipped THEN FlagsAfterBulk(local, ids, dbw, "local") ELSE local
          /\ IF BulkSucceeds(songFiles, archiveOk, persist)
             THEN /\ result' = [result EXCEPT ![id] =
                                  [zipPath |-> ZipFilename(now),
                                   successCount |-> Cardinality(songFiles),
                                   failCount |-> totalSongs - Cardinality(songFiles)]]
                  /\ status' = [status EXCEPT ![id] = "completed"]
                  /\ pc' = [pc EXCEPT ![id] = "idle"]
                  /\ listeners' = Emitted(id)
                  /\ EmitProgress(u,
                         BatchEvents(id, Cardinality(newFiles) + extra, extractFail, files)
                         \o <<Event("complete", NoProgress, id, 0)>>)
                  /\ UNCHANGED <<attemptsMade, errEvents>>
             ELSE /\ errEvents' = [errEvents EXCEPT ![id] = @ + 1]
                  /\ EmitProgress(u,
                         BatchEvents(id, Cardinality(newFiles) + extra, extractFail, files)
                         \o (IF zipped THEN <<Event("complete", NoProgress, id, 0)>>
                             ELSE <<>>)
                         \o <<Event("error", NoProgress, id, 0)>>)
                  /\ AttemptFailed(id)
                  /\ UNCHANGED <<result, listeners>>
    /\ urls' = [urls EXCEPT ![id] = {}]
    /\ UNCHANGED <<calls, data, wait, now, nextId, started, submits, onlyToolFail,
                   registry, cancelling, responses, removedWaiting>>

\* ------------------------------------------- downloadQueue.on('completed')
\* the listener has looked the song up and starts downloadFromCustomUrl
OnCompletedStart(id) ==
    /\ id \in listeners
    /\ listeners' = listeners \ {id}
    /\ tools' = tools \cup {ListenerTool(id)}
    /\ UNCHANGED <<calls, status, data, attemptsMade, result, wait, pc, urls, downloaded,
                   local, folder, archive, errEvents, now, nextId, started, submits,
                   onlyToolFail, produced, delivered, registry, requests>>

\* downloadFromCustomUrl returned (ok) or raised; w1, w2: the two writes succeed
OnCompletedFinish(id, ok, w1, w2) ==
    /\ ListenerTool(id) \in tools
    /\ tools' = tools \ {ListenerTool(id)}
    /\ downloaded' = UpdateSongDownloadStatus(downloaded, data[id].songId, TRUE, ok /\ w1)
    /\ local' = UpdateSongLocalStatus(local, data[id].songId, TRUE, ok /\ w1 /\ w2)
    /\ UNCHANGED <<calls, status, data, attemptsMade, result, wait, pc, urls, folder,
                   archive, listeners, errEvents, now, nextId, started, submits,
                   onlyToolFail, produced, delivered, registry, requests>>

\* ---------------------------------------------------------- specification
\* the worker and the completed listener. The sets name the outcomes that are
\* explored: B of the storage and filesystem calls (TRUE = the call succeeds),
\* O of the single download, F of the songs that fail in a batch, W of the
\* catalog writes per song, P of persisting the result on the job
SingleWorker(B, O) ==
    \/ \E id \in JobIds, lookupOk \in B : ProcessSingleDownloadStart(id, lookupOk)
    \/ \E id \in JobIds, outcome \in O, w1 \in B, w2 \in B, c1 \in B, c2 \in B :
            ProcessSingleDownloadFinish(id, outcome, w1, w2, c1, c2)
    \/ \E id \in JobIds : OnCompletedStart(id)
    \/ \E id \in JobIds, ok \in BOOLEAN, w1 \in B, w2 \in B :
            OnCompletedFinish(id, ok, w1, w2)

BulkWorker(B, F, W, P) ==
    \/ \E id \in JobIds, mkdirOk \in B, convFail \in F :
            ProcessBulkDownloadStart(id, mkdirOk, convFail)
    \/ \E id \in JobIds, extractFail \in F, archiveOk \in BOOLEAN,
          dbw \in [Songs -> W], persist \in P :
            ProcessBulkDownloadFinish(id, extractFail, 0, archiveOk, dbw, persist)

Queue ==
    \/ Dequeue
    \/ \E id \in JobIds : PromoteDelayed(id)

\* single and custom-url jobs of one user, every outcome of every call
NextSingle ==
    \/ \E s \in Songs : NumJobs < MaxSingle /\ ApiDownloadAction("u1", s)
    \/ \E s \in Songs : NumJobs < MaxSingle /\ CustomUrlAction("u1", s)
    \/ Queue
    \/ SingleWorker(BOOLEAN, {"fail", "nomatch", "ok"})

SpecSingle == Init /\ [][NextSingle]_vars

\* bulk jobs of one user, submitted at different milliseconds (job ids are
\* only names: the clock advances once the current id is taken)
NextBulk ==
    \/ \E ids \in SUBSET Songs :
          /\ status[BulkId(now)] = "none" /\ NumJobs < MaxBulk
          /\ ApiBulkDownloadAction("u1", ids)
    \/ status[BulkId(now)] # "none" /\ Tick
    \/ Queue
    \/ BulkWorker(BOOLEAN, SUBSET Songs, {"both"}, {"ok", "update"})

SpecBulk == Init /\ [][NextBulk]_vars

\* jobs of all kinds in one queue: u1 downloads the Spotify song, u2 adds a
\* custom URL, u1 asks for all songs in bulk, possibly twice in one millisecond
\* (the clock advances once the current bulk id is taken); an attempt fails
\* because the tool or the archive fails
Next ==
    \/ NumJobs < MaxJobs /\ ApiDownloadAction("u1", 1)
    \/ NumJobs < MaxJobs /\ CustomUrlAction("u2", 2)
    \/ /\ status[BulkId(now)] # "none" \/ NumJobs < MaxJobs
       /\ ApiBulkDownloadAction("u1", Songs)
    \/ status[BulkId(now)] # "none" /\ Tick
    \/ Queue
    \/ SingleWorker({TRUE}, {"fail", "ok"})
    \/ BulkWorker({TRUE}, {{}, Songs}, {"both"}, {"ok"})

Spec == Init /\ [][Next]_vars

\* single and custom-url jobs of two users and the cancel requests of either
\* user for any job id
CancelRoute ==
    \/ \E u \in Users, id \in JobIds : CancelStart(u, id)
    \/ \E u \in Users, id \in JobIds : CancelRemove(u, id)

NextCancel ==
    \/ nextId <= MaxSingle /\ ApiDownloadAction("u1", 1)
    \/ nextId <= MaxSingle /\ CustomUrlAction("u2", 2)
    \/ CancelRoute
    \/ Queue
    \/ SingleWorker({TRUE}, {"fail", "ok"})

SpecCancel == Init /\ [][NextCancel]_vars

\* the same with clients connected to the live stream before any job is
\* submitted, and downloads that succeed
NextCancelWatched ==
    \/ \E k \in Conns, u \in Users : nextId = 1 /\ DownloadProgressOpen(k, u)
    \/ nextId <= MaxWatched /\ ApiDownloadAction("u1", 1)
    \/ nextId <= MaxWatched /\ CustomUrlAction("u2", 2)
    \/ CancelRoute
    \/ Dequeue
    \/ SingleWorker({TRUE}, {"ok"})

SpecCancelWatched == Init /\ [][NextCancelWatched]_vars

\* a client of either user connects to the live stream, then single and
\* custom-url jobs are submitted; every outcome of the download
NextSingleWatched ==
    \/ \E k \in Conns, u \in Users : nextId = 1 /\ DownloadProgressOpen(k, u)
    \/ nextId <= MaxWatched /\ ApiDownloadAction("u1", 1)
    \/ nextId <= MaxWatched /\ CustomUrlAction("u2", 2)
    \/ Queue
    \/ SingleWorker({TRUE}, {"fail", "nomatch", "ok"})

SpecSingleWatched == Init /\ [][NextSingleWatched]_vars

\* a client of u1 connects to the live stream, then u1 submits bulk jobs
NextBulkWatched ==
    \/ \E k \in Conns : NumJobs = 0 /\ DownloadProgressOpen(k, "u1")
    \/ \E ids \in SUBSET Songs :
          /\ status[BulkId(now)] = "none" /\ NumJobs < MaxWatched
          /\ ApiBulkDownloadAction("u1", ids)
    \/ status[BulkId(now)] # "none" /\ Tick
    \/ Queue
    \/ BulkWorker({TRUE}, SUBSET Songs, {"both"}, {"ok"})

SpecBulkWatched == Init /\ [][NextBulkWatched]_vars

\* the progress broadcaster: callbacks are added and removed, live-stream
\* connections open and close, and the download route publishes the queued
\* event of each job it adds
NextBroadcast ==
    \/ \E u \in Users, c \in Callbacks : AddEventSource(u, c)
    \/ \E u \in Users, c \in Callbacks : RemoveEventSource(u, c)
    \/ \E k \in Conns, u \in Users : DownloadProgressOpen(k, u)
    \/ \E k \in Conns : DownloadProgressAbort(k)
    \/ \E u \in Users : nextId <= MaxWatched /\ ApiDownloadAction(u, 1)

SpecBroadcast == Init /\ [][NextBroadcast]_vars

\* bulk jobs of one user for all songs, and requests for the archive of a job
NextRetrieve ==
    \/ /\ status[BulkId(now)] = "none" /\ NumJobs < MaxBulk
       /\ ApiBulkDownloadAction("u1", Songs)
    \/ status[BulkId(now)] # "none" /\ Tick
    \/ Queue
    \/ BulkWorker({TRUE}, {{}, Songs}, {"both"}, {"ok"})
    \/ \E id \in JobIds : ApiBulkDownloadJobLoader(id)

SpecRetrieve == Init /\ [][NextRetrieve]_vars

\* ------------------------------------------------------------------ claims
BulkJobs == {id \in JobIds : data[id].kind = "bulk"}
SingleJobs == {id \in JobIds : data[id].kind = "single"}
Occurrences(q, id) == Cardinality({i \in 1..Len(q) : q[i] = id})
Changes == {<<status[id], status'[id]>> : id \in {j \in JobIds : status'[j] # status[j]}}

\* C1 as stated: a job is created waiting, becomes active only from waiting,
\* completed or failed only from active, and its status changes in no other way.
C1_StateMachine ==
    [][Changes \subseteq {<<"none", "waiting">>, <<"waiting", "active">>,
                          <<"active", "completed">>, <<"active", "failed">>}]_vars

\* C1 amended: besides the transitions above, an attempt that raises while
\* attempts remain moves the job from active to delayed, and the elapsed backoff
\* moves it from delayed to waiting; the status changes in no other way.
C1_StateMachineWithRetry ==
    [][Changes \subseteq {<<"none", "waiting">>, <<"waiting", "active">>,
                          <<"active", "completed">>, <<"active", "failed">>,
                          <<"active", "delayed">>, <<"delayed", "waiting">>}]_vars

\* a job was retried after a failed attempt and then completed
C1_Witness == \E id \in JobIds : status[id] = "completed" /\ attemptsMade[id] > 0

\* C2: no job is executed a 4th time, and a job is permanently failed only
\* after 3 attempts were made, whatever route submitted it.
C2_ThreeAttempts ==
    \A id \in JobIds :
        /\ started[id] <= 3
        /\ status[id] = "failed" => started[id] = 3 /\ attemptsMade[id] = 3

\* a bulk job and a custom-url job have both failed for good
C2_Witness ==
    /\ \E id \in JobIds : data[id].route = "bulk" /\ status[id] = "failed"
                          /\ started[id] = 3
    /\ \E id \in JobIds : data[id].route = "custom" /\ status[id] = "failed"
                          /\ started[id] = 3

\* C3: a single job that failed because the external tool failed on each of its
\* attempts has exactly one error event and its song has both flags false.
C3_SingleFailureOneError ==
    \A id \in SingleJobs :
        status[id] = "failed" /\ onlyToolFail[id] =>
            /\ errEvents[id] = 1
            /\ ~downloaded[data[id].songId]
            /\ ~local[data[id].songId]

\* C4: a completed bulk job has produced at least one file itself and has
\* written an archive.
C4_BulkCompletedProducedFile ==
    \A id \in BulkJobs :
        status[id] = "completed" => produced[id] # {} /\ archive[id] # {}

\* C5: a bulk job of n songs that completed with k of them never extracted by
\* the job, 0 < k < n, has n-k files in its archive and reports
\* successCount = n-k, failCount = k.
C5_PartialBulkCounts ==
    \A id \in BulkJobs :
        LET n == Cardinality(data[id].bulkSongIds)
            k == Cardinality(data[id].bulkSongIds \ produced[id])
        IN status[id] = "completed" /\ 0 < k /\ k < n =>
            /\ Cardinality(archive[id]) = n - k
            /\ result[id].successCount = n - k
            /\ result[id].failCount = k

\* C6: the step that completes a bulk job turns the flags downloaded and local
\* to true only for songs whose file is in the job's archive.
C6_FlagsOnlyForArchived ==
    [][\A id \in BulkJobs :
          status[id] = "active" /\ status'[id] = "completed" =>
              \A s \in Songs :
                  (local'[s] /\ ~local[s]) \/ (downloaded'[s] /\ ~downloaded[s])
                      => s \in archive'[id]]_vars

\* C7: in the step that completes a single job, the job's song ends with
\* downloaded = true and local = true.
C7_SingleCompletedFlags ==
    [][\A id \in SingleJobs :
          status[id] = "active" /\ status'[id] = "completed" =>
              downloaded'[data[id].songId] /\ local'[data[id].songId]]_vars

\* a single job completed after an earlier attempt of it had failed
C7_Witness ==
    \E id \in SingleJobs :
        /\ status[id] = "completed" /\ attemptsMade[id] > 0
        /\ downloaded[data[id].songId] /\ local[data[id].songId]

\* C8: at most one job is active, and a handler runs only for the active job.
C8_OneActiveJob ==
    /\ Cardinality(Active) <= 1
    /\ \A id \in JobIds : pc[id] # "idle" => status[id] = "active"

\* a job of one user is running while a job of another user waits
C8_Witness ==
    \E a \in JobIds, b \in JobIds :
        /\ status[a] = "active" /\ pc[a] = "tool"
        /\ status[b] = "waiting" /\ data[a].userId # data[b].userId

\* C9: every running external tool was started by the worker for the job that
\* is active, and at most one tool runs.
C9_ToolsInsideActiveJob ==
    /\ Cardinality(tools) <= 1
    /\ \A t \in tools : t.ctx = "worker" /\ status[t.job] = "active"

\* C10: a bulk id has exactly one scheduling entry while its job waits and none
\* otherwise, and its job is executed again only after a failed attempt.
C10_BulkSubmitIdempotent ==
    \A id \in BulkJobs :
        /\ Occurrences(wait, id) = (IF status[id] = "waiting" THEN 1 ELSE 0)
        /\ started[id] <= attemptsMade[id] + 1

\* the same bulk id was submitted twice and its job is queued or executing
C10_Witness ==
    \E id \in BulkJobs :
        submits[id] >= 2 /\ status[id] \in {"waiting", "active"}

\* the answer given in this step, if the step answers a request
Answers(r) == Len(responses') = Len(responses) + 1 /\ r = responses'[Len(responses')]
AllResponses == {responses'[i] : i \in 1..Len(responses')}

\* C11: when the owner's cancel request removes a job that is waiting, the job
\* leaves the queue and the request succeeds; from then on the job is never
\* active and the worker starts no attempt for it.
C11_CancelWaitingRemoves ==
    [][/\ \A r \in AllResponses :
             Answers(r) /\ r.route = "cancel" /\ r.user = data[r.job].userId
               /\ status[r.job] = "waiting"
             => /\ r.code = 200
                /\ status'[r.job] = "none"
                /\ Occurrences(wait', r.job) = 0
       /\ \A id \in JobIds :
             removedWaiting[id] =>
                 status'[id] = "none" /\ pc'[id] = "idle" /\ started'[id] = started[id]
      ]_vars

\* a job was cancelled while it waited for its retry, and the queue is empty
C11_Witness ==
    \E id \in JobIds :
        /\ removedWaiting[id] /\ started[id] > 0 /\ status[id] = "none"
        /\ wait = <<>> /\ Active = {}

\* C12: the owner's cancel request on an active job is answered with success
\* and takes the job out of the queue's bookkeeping, while the handler of the
\* job keeps running.
C12_CancelActiveSignals ==
    [][\A r \in AllResponses :
          Answers(r) /\ r.route = "cancel" /\ r.user = data[r.job].userId
            /\ status[r.job] = "active"
          => /\ r.code = 200
             /\ status'[r.job] # "active"
             /\ pc'[r.job] = pc[r.job]
             /\ tools' = tools]_vars

\* C13: a cancel request of a user for a job of another user is answered 403
\* in a step that hands no event to any subscriber and leaves every job's
\* status and data and the wait list as they are.
C13_CancelByOtherUserRejected ==
    [][\A r \in AllResponses :
          Answers(r) /\ r.route = "cancel" /\ status[r.job] # "none"
            /\ r.user # data[r.job].userId
          => /\ r.code = 403
             /\ delivered' = delivered
             /\ status' = status /\ data' = data /\ wait' = wait
             /\ cancelling' = cancelling]_vars

\* a user was refused the cancellation of a running job of another user who
\* is connected to the live stream
C13_Witness ==
    \E i \in 1..Len(responses) :
        LET r == responses[i]
        IN /\ r.route = "cancel" /\ r.code = 403
           /\ status[r.job] = "active" /\ r.user # data[r.job].userId
           /\ downloadStreams[data[r.job].userId] # NoStream
           /\ delivered[StreamSub(downloadStreams[data[r.job].userId])] # <<>>

\* C14: a request for the archive of a completed bulk job looks the file up
\* where the worker wrote it, under the basename kept on the job, and is not
\* answered not-found.
C14_RetrievalFindsArchive ==
    [][\A r \in AllResponses :
          Answers(r) /\ r.route = "retrieve" /\ status[r.job] = "completed"
            /\ data[r.job].kind = "bulk"
          => /\ RetrievalZipPath(r.user, r.job)
                   = <<"tmp", r.user, "bulk", result[r.job].zipPath>>
             /\ r.code = 200]_vars

\* the events of job id among those handed to a subscriber, and the
\* progress-typed ones among them
EventsOf(c, id) == SelectSeq(delivered[c], LAMBDA e : e.jobId = id)
ProgressOf(c, id) == SelectSeq(EventsOf(c, id), LAMBDA e : e.type = "progress")
NonDecreasing(q) == \A i \in 1..(Len(q) - 1) : q[i].progress <= q[i + 1].progress
\* the stream that has been connected for the owner of job id since before the
\* job was submitted
Watchers(id) ==
    {StreamSub(k) : k \in {j \in Conns : open[j] = data[id].userId
                                         /\ downloadStreams[open[j]] = j}}

\* C15: the progress values of the progress-typed events of a job, in the
\* order a subscriber receives them, never decrease; bulk jobs included.
C15_ProgressNonDecreasing ==
    \A c \in Subscribers, id \in JobIds : NonDecreasing(ProgressOf(c, id))

\* C16: the progress values of the progress-typed events of a single job never
\* decrease; a complete event directly follows a progress event that carries
\* 100, and a job that completed has had its complete event as its last event.
C16_SingleProgress ==
    \A id \in SingleJobs :
        /\ \A c \in Subscribers :
              LET q == EventsOf(c, id)
              IN /\ NonDecreasing(ProgressOf(c, id))
                 /\ \A i \in 1..Len(q) :
                       q[i].type = "complete" =>
                           i > 1 /\ q[i - 1].type = "progress" /\ q[i - 1].progress = 100
        /\ status[id] = "completed" =>
              \A c \in Watchers(id) :
                  LET q == EventsOf(c, id)
                  IN Len(q) > 1 /\ q[Len(q)].type = "complete"
                     /\ ProgressOf(c, id)[Len(ProgressOf(c, id))].progress = 100

\* a connected client has seen a single job fail an attempt and then complete
C16_Witness ==
    \E id \in SingleJobs :
        /\ status[id] = "completed" /\ attemptsMade[id] > 0
        /\ \E c \in Watchers(id) : Len(ProgressOf(c, id)) >= 3

\* C17: the step in which an attempt of a job ends in failure, whatever step of
\* the handler raised, emits an error event for the job.
C17_FailedAttemptEmitsError ==
    [][\A id \in JobIds :
          status[id] = "active" /\ status'[id] \in {"delayed", "failed"}
              => errEvents'[id] > errEvents[id]]_vars

\* the songs of job id for which a subscriber received an error event
ErrorSongs(c, id) ==
    {s \in Songs : \E i \in 1..Len(delivered[c]) :
        LET e == delivered[c][i]
        IN e.jobId = id /\ e.type = "error" /\ e.song = s}

\* C18: in the first attempt of a bulk job, every song but those whose
\* conversion failed is in the batch, and once the attempt has completed the
\* job, an error event was emitted for each song that gave no file.
C18_BulkItemFailures ==
    \A id \in BulkJobs : \A c \in Watchers(id) :
        attemptsMade[id] = 0 =>
            /\ pc[id] = "tool" => urls[id] = data[id].bulkSongIds \ ErrorSongs(c, id)
            /\ status[id] = "completed" =>
                  data[id].bulkSongIds \ produced[id] \subseteq ErrorSongs(c, id)

\* C19: a step of the download route that adds a job for user u appends the
\* job's queued event once to what each callback in u's set and u's tracked
\* stream have received, and to nothing else; no other step of the
\* broadcaster hands anything to a subscriber.
C19_PublishDelivery ==
    [][IF nextId' # nextId
       THEN LET id == NumId(nextId)
                u == data'[id].userId
                e == Event("queued", 0, id, data'[id].songId)
                registered == {CallbackSub(u, c) : c \in eventSources[u]}
                              \cup {StreamSub(k) : k \in {j \in Conns : downloadStreams[u] = j}}
            IN \A c \in Subscribers :
                   delivered'[c] = IF c \in registered THEN Append(delivered[c], e)
                                   ELSE delivered[c]
       ELSE delivered' = delivered]_vars

\* an event reached a callback and the stream of its user while a callback of
\* the other user was registered and a callback of the same user, registered
\* since, has received nothing
C19_Witness ==
    \E u \in Users, v \in Users, c \in Callbacks, d \in Callbacks :
        /\ u # v /\ c # d
        /\ eventSources[u] = {c, d} /\ eventSources[v] # {}
        /\ delivered[CallbackSub(u, c)] # <<>> /\ delivered[CallbackSub(u, d)] = <<>>
        /\ downloadStreams[u] # NoStream
        /\ delivered[StreamSub(downloadStreams[u])] # <<>>
        /\ \A x \in Callbacks : delivered[CallbackSub(v, x)] = <<>>

\* C20: the step in which a live-stream connection closes leaves every other
\* connection registered that was registered before.
C20_DisconnectRemovesOnlyItself ==
    [][\A k \in Conns :
          open[k] \in Users /\ open'[k] = "closed" =>
              \A u \in Users :
                  downloadStreams[u] \notin {NoStream, k}
                      => downloadStreams'[u] = downloadStreams[u]]_vars

\* ------------------------------------------------------------------
\* Storage calls (db.server.ts).  The storage answers the successive
\* operations of a call with the outcomes of a schedule.

program == <<status, data, attemptsMade, result, wait, pc, urls, downloaded, local,
             folder, archive, zips, tools, listeners, errEvents, now, nextId,
             started, submits, onlyToolFail, produced, registry, delivered,
             cancelling, responses, removedWaiting>>

StartCall(op, schedule) ==
    [op |-> op, schedule |-> schedule, attempt |-> 0, calls |-> 0,
     result |-> "pending"]

\* the outcome of the next storage operation of the call
DbRun(r) == r.schedule[r.calls + 1]

LoopContinuesOnceMore(attempt) == attempt <= MaxRetries + 1
LoopContinues(attempt) == attempt <= MaxRetries

WithRetryCall(schedule) ==
    /\ retry.op = "none"
    /\ retry' = StartCall("withRetry", schedule)
    /\ UNCHANGED <<program, build, match, acks>>

\* one turn of the loop of withRetry, or the throw after the loop
WithRetryAttempt ==
    /\ retry.op = "withRetry"
    /\ retry.result = "pending"
    /\ IF LoopContinues(retry.attempt)
       THEN LET o == DbRun(retry)
            IN retry' = [retry EXCEPT !.calls = @ + 1,
                                      !.attempt = IF o = "busy" THEN @ + 1 ELSE @,
                                      !.result = IF o = "busy" THEN "pending" ELSE o]
       ELSE retry' = [retry EXCEPT !.result = "busy"]
    /\ UNCHANGED <<program, build, match, acks>>

\* updateSongDownloadStatus and updateSongLocalStatus run their statement once
SetDownloaded(s, v, schedule) ==
    /\ retry.op = "none"
    /\ LET r == StartCall("setDownloaded", schedule)
           o == DbRun(r)
       IN /\ retry' = [r EXCEPT !.calls = @ + 1, !.result = o]
          /\ downloaded' = UpdateSongDownloadStatus(downloaded, s, v, o = "ok")
    /\ UNCHANGED <<status, data, attemptsMade, result, wait, pc, urls, local,
                   folder, archive, zips, tools, listeners, errEvents, now, nextId,
                   started, submits, onlyToolFail, produced, registry, delivered,
                   cancelling, responses, removedWaiting, build, match, acks>>

SetLocal(s, v, schedule) ==
    /\ retry.op = "none"
    /\ LET r == StartCall("setLocal", schedule)
           o == DbRun(r)
       IN /\ retry' = [r EXCEPT !.calls = @ + 1, !.result = o]
          /\ local' = UpdateSongLocalStatus(local, s, v, o = "ok")
    /\ UNCHANGED <<status, data, attemptsMade, result, wait, pc, urls, downloaded,
                   folder, archive, zips, tools, listeners, errEvents, now, nextId,
                   started, submits, onlyToolFail, produced, registry, delivered,
                   cancelling, responses, removedWaiting, build, match, acks>>

NextStorage ==
    \/ retry.op = "none" /\ \E schedule \in Schedules : WithRetryCall(schedule)
    \/ WithRetryAttempt
    \/ retry.op = "none" /\ \E s \in Songs, v \in BOOLEAN, schedule \in Schedules :
                                SetDownloaded(s, v, schedule)
    \/ retry.op = "none" /\ \E s \in Songs, v \in BOOLEAN, schedule \in Schedules :
                                SetLocal(s, v, schedule)

SpecStorage == Init /\ [][NextStorage]_vars

\* the storage answers busy, busy, ok to the first three operations
BusyBusyOk(r) ==
    r.schedule[1] = "busy" /\ r.schedule[2] = "busy" /\ r.schedule[3] = "ok"

\* C21: a catalog update (setDownloaded, setLocal) whose storage answers busy on
\* the first two attempts and succeeds on the third has succeeded after exactly
\* three attempted storage operations.
C21_UpdateRetriesContention ==
    retry.op \in {"setDownloaded", "setLocal"} /\ retry.result # "pending"
        /\ BusyBusyOk(retry)
        => retry.result = "ok" /\ retry.calls = 3

\* C22 as stated: the retry wrapper never makes a sixth attempt.
C22_AtMostFiveAttempts ==
    retry.op = "withRetry" => retry.calls <= 5

\* C22 amended: the retry wrapper attempts the operation at most MaxRetries + 1
\* times (the first call and five retries); under contention on every attempt it
\* ends with the contention error after exactly that many attempts, and an error
\* that is not contention ends the call at the attempt that raised it.
C22_AtMostSixAttempts ==
    retry.op = "withRetry" =>
        /\ retry.calls <= MaxRetries + 1
        /\ retry.attempt <= MaxRetries + 1
        /\ retry.result = "busy" =>
               /\ retry.calls = MaxRetries + 1
               /\ \A i \in 1..(MaxRetries + 1) : retry.schedule[i] = "busy"
        /\ retry.result \in {"ok", "error"} =>
               /\ retry.schedule[retry.calls] = retry.result
               /\ \A i \in 1..(retry.calls - 1) : retry.schedule[i] = "busy"
        /\ retry.result = "pending" =>
               \A i \in 1..retry.calls : retry.schedule[i] = "busy"

\* the wrapper gave up under contention on every attempt
C22_Witness ==
    /\ retry.op = "withRetry" /\ retry.result = "busy"
    /\ retry.calls = MaxRetries + 1

\* ------------------------------------------------------------------
\* Archive builder (zipService.server.ts, createZipFromFilePaths).  A path
\* names a regular file, a directory or nothing.

StartBuild(paths) ==
    [state |-> "adding", paths |-> paths, i |-> 0, added |-> 0, failed |-> 0,
     fault |-> "none"]

\* one turn of the loop over filePaths: stat, append, count
AppendPathCountingAll(b, kind) ==
    [b EXCEPT !.i = @ + 1, !.added = @ + 1]
AppendPath(b, kind) ==
    CASE kind = "file" -> [b EXCEPT !.i = @ + 1, !.added = @ + 1]
      [] kind = "missing" -> [b EXCEPT !.i = @ + 1, !.failed = @ + 1]
      [] OTHER -> [b EXCEPT !.i = @ + 1]

\* the call: mkdir of the output directory, the write stream, the archiver
CreateZipCall(paths, mkdirOk) ==
    /\ build.state = "none"
    /\ build' = IF mkdirOk THEN StartBuild(paths)
                ELSE [StartBuild(paths) EXCEPT !.state = "raised", !.fault = "mkdir"]
    /\ UNCHANGED <<program, retry, match, acks>>

CreateZipAddPath ==
    /\ build.state = "adding"
    /\ build.i < Len(build.paths)
    /\ build' = AppendPath(build, build.paths[build.i + 1])
    /\ UNCHANGED <<program, retry, match, acks>>

\* await archive.finalize(): it resolves and the close, error and warning
\* listeners are registered, or the archive fails while no error listener of
\* the archive exists yet (the promise of finalize rejects, or the error event
\* of the archive is unhandled and ends the process)
CreateZipFinalize(archiveOk, rejects) ==
    /\ build.state = "adding"
    /\ build.i = Len(build.paths)
    /\ build' = IF archiveOk THEN [build EXCEPT !.state = "waiting"]
                ELSE [build EXCEPT !.fault = "archive",
                                   !.state = IF rejects THEN "raised" ELSE "crashed"]
    /\ UNCHANGED <<program, retry, match, acks>>

\* the close event of the output stream, after the listeners are registered
CreateZipOutputClose ==
    /\ build.state = "waiting"
    /\ build' = [build EXCEPT !.state = "returned"]
    /\ UNCHANGED <<program, retry, match, acks>>

\* the error event of the archive, after the listeners are registered
CreateZipArchiveError ==
    /\ build.state = "waiting"
    /\ build' = [build EXCEPT !.state = "raised", !.fault = "archive"]
    /\ UNCHANGED <<program, retry, match, acks>>

\* the error event of the output stream: the function registers no listener
\* for it at any time, the event is unhandled and ends the process
CreateZipOutputError ==
    /\ build.state \in {"adding", "waiting"}
    /\ build' = [build EXCEPT !.state = "crashed", !.fault = "output"]
    /\ UNCHANGED <<program, retry, match, acks>>

NextArchive ==
    \/ build.state = "none" /\ \E paths \in PathLists, mkdirOk \in BOOLEAN :
                                   CreateZipCall(paths, mkdirOk)
    \/ CreateZipAddPath
    \/ \E archiveOk \in BOOLEAN, rejects \in BOOLEAN :
           CreateZipFinalize(archiveOk, rejects)
    \/ CreateZipOutputClose
    \/ CreateZipArchiveError
    \/ CreateZipOutputError

SpecArchive == Init /\ [][NextArchive]_vars

CountKind(paths, kind) == Cardinality({i \in 1..Len(paths) : paths[i] = kind})

\* C23: a build over N paths of files and M paths of nothing, in any order,
\* that returns has appended exactly N entries and counts M failures, and no
\* build raises unless the output directory or the archive failed.
C23_BuildSkipsMissing ==
    /\ build.state = "returned" =>
           /\ build.added = CountKind(build.paths, "file")
           /\ build.failed = CountKind(build.paths, "missing")
    /\ build.state \in {"raised", "crashed"} => build.fault # "none"
    /\ build.state \in {"adding", "waiting"} /\ build.fault = "none" =>
           /\ build.added = CountKind(SubSeq(build.paths, 1, build.i), "file")
           /\ build.failed = CountKind(SubSeq(build.paths, 1, build.i), "missing")

\* a build returned whose list has a path of nothing before a path of a file
C23_Witness ==
    /\ build.state = "returned"
    /\ \E i, j \in 1..Len(build.paths) :
           i < j /\ build.paths[i] = "missing" /\ build.paths[j] = "file"
    /\ build.added >= 1 /\ build.failed >= 1

\* C30: no build ends without having returned the path or raised to its caller.
C30_BuildReturnsOrRaises ==
    build.state # "crashed"

\* ------------------------------------------------------------------
\* File matcher (file-matching.server.ts).  A string is a sequence of
\* characters; a file of the listing is given by its name without extension.

ToLowerCase(str) == [i \in 1..Len(str) |-> IF str[i] = "B" THEN "b" ELSE str[i]]
IsWordChar(c) == c \in {"a", "b", "B"}
IsSpace(c) == c = " "

\* replace(/[^\w\s]/g, '')
RemoveSpecial(str) == SelectSeq(str, LAMBDA c : IsWordChar(c) \/ IsSpace(c))

\* replace(/\s+/g, ' ')
RECURSIVE CollapseSpaces(_)
CollapseSpaces(str) ==
    IF Len(str) <= 1 THEN str
    ELSE IF IsSpace(str[1]) /\ IsSpace(str[2]) THEN CollapseSpaces(Tail(str))
    ELSE <<str[1]>> \o CollapseSpaces(Tail(str))

RECURSIVE TrimStart(_)
TrimStart(str) ==
    IF str # <<>> /\ IsSpace(str[1]) THEN TrimStart(Tail(str)) ELSE str

RECURSIVE TrimEnd(_)
TrimEnd(str) ==
    IF str # <<>> /\ IsSpace(str[Len(str)])
    THEN TrimEnd(SubSeq(str, 1, Len(str) - 1)) ELSE str

Trim(str) == TrimEnd(TrimStart(str))

NormalizeString(str) == Trim(CollapseSpaces(RemoveSpecial(ToLowerCase(str))))

\* String.prototype.includes
Includes(str, part) ==
    \E k \in 0..(Len(str) - Len(part)) : SubSeq(str, k + 1, k + Len(part)) = part

\* String.prototype.split(' ')
RECURSIVE SplitSpaces(_, _)
SplitSpaces(str, word) ==
    IF str = <<>> THEN <<word>>
    ELSE IF IsSpace(str[1]) THEN <<word>> \o SplitSpaces(Tail(str), <<>>)
    ELSE SplitSpaces(Tail(str), Append(word, str[1]))

TitleKeywords(normalizedTitle) ==
    SelectSeq(SplitSpaces(normalizedTitle, <<>>), LAMBDA word : Len(word) > 2)

\* Math.ceil(n * 0.7)
SeventyPercent(n) == (7 * n + 9) \div 10

\* Array.prototype.find: the first of the positions whose file passes the
\* test, 0 for none
Find(passing) ==
    IF passing = {} THEN 0 ELSE CHOOSE i \in passing : \A j \in passing : i <= j

\* the position in the listing of the file findMatchingFile returns, 0 for null
FindMatchingFile(files, songTitle, artistName, readdirOk) ==
    LET normalizedTitle == NormalizeString(songTitle)
        normalizedArtist == NormalizeString(artistName)
        titleKeywords == TitleKeywords(normalizedTitle)
        positions == 1..Len(files)
        exactMatch == Find({p \in positions : Includes(files[p], songTitle)})
        normalizedMatch ==
            Find({p \in positions :
                     Includes(NormalizeString(files[p]), normalizedTitle)})
        keywordMatch ==
            Find({p \in positions :
                     Len(SelectSeq(titleKeywords,
                                   LAMBDA w : Includes(NormalizeString(files[p]), w)))
                         >= SeventyPercent(Len(titleKeywords))})
        artistAndTitleMatch ==
            Find({p \in positions :
                     /\ Includes(NormalizeString(files[p]), normalizedArtist)
                     /\ \E i \in 1..Len(titleKeywords) :
                            Includes(NormalizeString(files[p]), titleKeywords[i])})
    IN IF ~readdirOk \/ files = <<>> \/ normalizedTitle = <<>> THEN 0
       ELSE IF exactMatch # 0 THEN exactMatch
       ELSE IF normalizedMatch # 0 THEN normalizedMatch
       ELSE IF titleKeywords = <<>> THEN 0
       ELSE IF keywordMatch # 0 THEN keywordMatch
       ELSE IF artistName # <<>> /\ normalizedArtist # <<>> THEN artistAndTitleMatch
       ELSE 0

FindMatchCall(files, songTitle, artistName, readdirOk) ==
    /\ match.state = "none"
    /\ match' = [state |-> "returned", files |-> files, songTitle |-> songTitle,
                 artistName |-> artistName, readdirOk |-> readdirOk,
                 found |-> FindMatchingFile(files, songTitle, artistName, readdirOk)]
    /\ UNCHANGED <<program, retry, build, acks>>

NextMatch ==
    /\ match.state = "none"
    /\ \E files \in Listings, songTitle \in Strings, artistName \in Artists,
          readdirOk \in BOOLEAN :
           FindMatchCall(files, songTitle, artistName, readdirOk)

SpecMatch == Init /\ [][NextMatch]_vars

\* C24: for a title that is not empty and a listing that was read and holds a
\* file whose name equals the title, findMatch returns that very file.
C24_ExactMatchReturned ==
    match.state = "returned" /\ match.readdirOk /\ match.songTitle # <<>>
        /\ (\E i \in 1..Len(match.files) : match.files[i] = match.songTitle)
        => /\ match.found # 0
           /\ match.files[match.found] = match.songTitle

\* ------------------------------------------------------------------
\* a client of u1 connects to the live stream, then u1 submits one bulk job
\* whose tool prints any number of completion markers
NextBulkMarkers ==
    \/ \E k \in Conns : NumJobs = 0 /\ DownloadProgressOpen(k, "u1")
    \/ \E ids \in SUBSET Songs : NumJobs = 0 /\ ApiBulkDownloadAction("u1", ids)
    \/ Queue
    \/ \E id \in JobIds, convFail \in {{}} :
            ProcessBulkDownloadStart(id, TRUE, convFail)
    \/ \E id \in JobIds, extractFail \in SUBSET Songs, extra \in 0..MaxExtra,
          archiveOk \in BOOLEAN :
            ProcessBulkDownloadFinish(id, extractFail, extra, archiveOk,
                                     [s \in Songs |-> "both"], "ok")

SpecBulkMarkers == Init /\ [][NextBulkMarkers]_vars

\* C25: the progress of every event that carries one, as a subscriber receives
\* it, lies within 0..100.
C25_ProgressWithinBounds ==
    \A c \in Subscribers : \A i \in 1..Len(delivered[c]) :
        delivered[c][i].progress # NoProgress =>
            delivered[c][i].progress \in 0..100

\* C26: the archive of a bulk job holds only files that the job's own batches
\* produced, and the successCount the job reports counts no other file.
C26_ArchiveOnlyOwnFiles ==
    \A id \in BulkJobs :
        /\ archive[id] \subseteq produced[id]
        /\ result[id].successCount <= Cardinality(produced[id])

\* ------------------------------------------------------------------
\* bulk submissions of both users, at any millisecond, with their answers
NextBulkSubmit ==
    \/ \E u \in Users, ids \in SUBSET Songs :
          Len(acks) < MaxSubmits /\ ApiBulkDownloadAnswered(u, ids)
    \/ Tick
    \/ Dequeue

SpecBulkSubmit == Init /\ [][NextBulkSubmit]_vars

\* C29: no two acknowledged bulk submissions were given the same job id, and
\* the job under an acknowledged id carries the userId and the song list of the
\* request that was acknowledged with it.
C29_AcknowledgedOwnJob ==
    /\ \A i, j \in 1..Len(acks) : i # j => acks[i].jobId # acks[j].jobId
    /\ \A i \in 1..Len(acks) :
          /\ data[acks[i].jobId].userId = acks[i].userId
          /\ data[acks[i].jobId].bulkSongIds = acks[i].bulkSongIds

\* ------------------------------------------------------------------
\* a client of u1 connects to the live stream, then u1 posts bulk downloads,
\* also while the job of the current millisecond exists
NextBulkResubmit ==
    \/ \E k \in Conns : NumJobs = 0 /\ DownloadProgressOpen(k, "u1")
    \/ \E ids \in SUBSET Songs : ApiBulkDownloadAction("u1", ids)
    \/ Queue
    \/ BulkWorker({TRUE}, {{}}, {"both"}, {"ok"})

SpecBulkResubmit == Init /\ [][NextBulkResubmit]_vars

\* C27: among the events of a job, in the order a subscriber receives them, no
\* queued event comes after a progress, complete or error event.
C27_QueuedFirst ==
    \A c \in Subscribers, id \in JobIds :
        LET q == EventsOf(c, id)
        IN \A i, j \in 1..Len(q) :
               i < j /\ q[i].type \in {"progress", "complete", "error"}
                   => q[j].type # "queued"

\* ------------------------------------------------------------------
\* a client of u1 connects to the live stream, then u1 posts one bulk download
\* whose job may fail to persist its progress or its result
NextBulkPersist ==
    \/ \E k \in Conns : NumJobs = 0 /\ DownloadProgressOpen(k, "u1")
    \/ \E ids \in SUBSET Songs : NumJobs = 0 /\ ApiBulkDownloadAction("u1", ids)
    \/ Queue
    \/ BulkWorker({TRUE}, {{}}, {"both"}, {"ok", "progress", "update"})

SpecBulkPersist == Init /\ [][NextBulkPersist]_vars

\* C28: a job whose complete event a subscriber has received is completed, and
\* no error event of the job follows its complete event.
C28_CompleteIsTerminal ==
    \A c \in Subscribers, id \in JobIds :
        LET q == EventsOf(c, id)
        IN /\ (\E i \in 1..Len(q) : q[i].type = "complete")
                  => status[id] = "completed"
           /\ \A i, j \in 1..Len(q) :
                  i < j /\ q[i].type = "complete" => q[j].type # "error"

====
